---- MODULE Spec2Model ----
(***************************************************************************)
(* System_agent (cmd/System_agent/main.go): a one-shot host inventory      *)
(* probe.  main reads /etc/os-release, selects a package backend from its  *)
(* ID field, runs one package query, reads every declared config file and  *)
(* prints the gathered SystemInfo as JSON.                                 *)
(*                                                                         *)
(* A Go string is modelled as a sequence of one-character strings, so that *)
(* strings.Split, SplitN, Trim, ToLower and Contains are computed on the   *)
(* characters as the library computes them.  A Go map is a function whose  *)
(* domain is its key set.                                                  *)
(***************************************************************************)
EXTENDS Integers, Sequences, FiniteSets, TLC

VARIABLES
    pc,           \* the statement main is about to execute
    osRelease,    \* OSDetector.osRelease
    pkgType,      \* PackageManager.pkgType ("none" before NewPackageManager)
    systemInfo,   \* Agent.systemInfo, with the set of its non-nil fields
    packages,     \* GatherSystemInfo: local packages
    configs,      \* GatherSystemInfo: local configs
    i,            \* GatherSystemInfo: index of pkg in "range packages"
    j,            \* GatherSystemInfo: index of configPath in "range pkg.ConfigFiles"
    content,      \* ReadConfigFile: local content between ReadFile and Stat
    stdout,       \* what the process has written to standard output
    stderr,       \* what the process has written to standard error
    exitCode,     \* the exit status once pc = "exited"
    calls,        \* history: the calls made to the OS (files read, command run)
    fs,           \* the filesystem under the declared config paths
    fsChanges     \* how many times another process has changed fs

vars == <<pc, osRelease, pkgType, systemInfo, packages, configs, i, j, content,
          stdout, stderr, exitCode, calls, fs, fsChanges>>

----------------------------------------------------------------------------
(* Bounds of the model *)

\* How many times another process changes a file during one run.
MaxFsChanges == 2

\* The longest distribution ID enumerated character by character.
MaxIDLen == 4

\* The longest package-query output enumerated character by character.
MaxOutputLen == 7

\* The longest descriptor enumerated character by character.
MaxDescLen == 7

----------------------------------------------------------------------------
(* Characters *)

TAB == "\t"
NL == "\n"
SP == " "
EQ == "="
QUOTE == "\""
SLASH == "/"

Upper == <<"A","B","C","D","E","F","G","H","I","J","K","L","M",
           "N","O","P","Q","R","S","T","U","V","W","X","Y","Z">>
Lower == <<"a","b","c","d","e","f","g","h","i","j","k","l","m",
           "n","o","p","q","r","s","t","u","v","w","x","y","z">>

----------------------------------------------------------------------------
(* Package strings, as main.go uses them *)

\* The element of a one-element set.  Writing { F(x) : x \in {e} } for
\* "F(e)" has e evaluated once, however often F uses it.
The(S) == CHOOSE x \in S : TRUE

Min(S) == CHOOSE x \in S : \A y \in S : x <= y
Max(S) == CHOOSE x \in S : \A y \in S : x >= y

\* The positions of the separator in s, and the m-th of them from the left.
SepAt(s, sep) == {k \in 1..Len(s) : s[k] = sep}
NthSep(s, sep, m) ==
    CHOOSE k \in SepAt(s, sep) : Cardinality({q \in SepAt(s, sep) : q <= k}) = m

\* strings.SplitN(s, sep, n) for a one-character sep and n > 0 (genSplit):
\* s is cut at its first n-1 separators, the last piece is the remainder.
SplitN(s, sep, n) ==
    LET cuts == Min({Cardinality(SepAt(s, sep)), n - 1})
        from == [m \in 1..(cuts + 1) |->
                    IF m = 1 THEN 1 ELSE NthSep(s, sep, m - 1) + 1]
        to == [m \in 1..(cuts + 1) |->
                    IF m = cuts + 1 THEN Len(s) ELSE NthSep(s, sep, m) - 1]
    IN [m \in 1..(cuts + 1) |-> SubSeq(s, from[m], to[m])]

\* strings.Split(s, sep): SplitN with no limit on the pieces.
Split(s, sep) == SplitN(s, sep, Len(s) + 1)

\* strings.Trim(s, cutset): s from its first to its last character outside
\* cutset.
Trim(s, cutset) ==
    LET keep == {k \in 1..Len(s) : s[k] \notin cutset} IN
    IF keep = {} THEN <<>> ELSE SubSeq(s, Min(keep), Max(keep))

\* unicode.ToLower on one character.
LowerRune(c) ==
    IF \E k \in 1..Len(Upper) : Upper[k] = c
    THEN Lower[CHOOSE k \in 1..Len(Upper) : Upper[k] = c]
    ELSE c

\* strings.ToLower
ToLower(s) == [k \in 1..Len(s) |-> LowerRune(s[k])]

\* strings.Contains
Contains(s, substr) ==
    \E k \in 0..(Len(s) - Len(substr)) : SubSeq(s, k + 1, k + Len(substr)) = substr

----------------------------------------------------------------------------
(* Maps *)

EmptyMap == <<>>

MapGet(m, k) == IF k \in DOMAIN m THEN m[k] ELSE <<>>

MapPut(m, k, v) == [x \in (DOMAIN m) \cup {k} |-> IF x = k THEN v ELSE m[x]]

----------------------------------------------------------------------------
(* NewOSDetector: the parse of the descriptor's content *)

\* Mutant of ParseLines: the line is split at every "=".
ParseLinesSplitAll(lines) ==
    LET after[n \in 0..Len(lines)] ==
            IF n = 0 THEN EmptyMap
            ELSE The({IF Len(parts) = 2
                      THEN MapPut(after[n - 1], Trim(parts[1], {QUOTE}),
                                  Trim(parts[2], {QUOTE}))
                      ELSE after[n - 1] : parts \in {Split(lines[n], EQ)}})
    IN after[Len(lines)]

\* The map after the loop over lines[1..n].
ParseLines(lines) ==
    LET after[n \in 0..Len(lines)] ==
            IF n = 0 THEN EmptyMap
            ELSE The({IF Len(parts) = 2
                      THEN MapPut(after[n - 1], Trim(parts[1], {QUOTE}),
                                  Trim(parts[2], {QUOTE}))
                      ELSE after[n - 1] : parts \in {SplitN(lines[n], EQ, 2)}})
    IN after[Len(lines)]

NewOSDetector(text) == The({ParseLines(lines) : lines \in {Split(text, NL)}})

----------------------------------------------------------------------------
(* NewPackageManager *)

\* Mutant of NewPackageManager: the ID is matched as it is written.
NewPackageManagerCaseSensitive(osID) ==
    IF \/ Contains(osID, <<"r","h","e","l">>)
       \/ Contains(osID, <<"c","e","n","t","o","s">>)
       \/ Contains(osID, <<"f","e","d","o","r","a">>)
    THEN "rpm"
    ELSE "apt"

NewPackageManager(osID) ==
    IF \/ Contains(ToLower(osID), <<"r","h","e","l">>)
       \/ Contains(ToLower(osID), <<"c","e","n","t","o","s">>)
       \/ Contains(ToLower(osID), <<"f","e","d","o","r","a">>)
    THEN "rpm"
    ELSE "apt"

\* The command GetInstalledPackages runs for a backend.
QueryCommand(kind) == IF kind = "rpm" THEN "rpm" ELSE "dpkg-query"

----------------------------------------------------------------------------
(* GetInstalledPackages: the parse of the command's output *)

NoStrings == <<>>

NonEmpty(str) == str # <<>>

\* Mutant of ConfigFilesOf: strings.Fields, which drops the empty pieces.
ConfigFilesOfFields(field) == SelectSeq(Split(field, SP), NonEmpty)

\* The fields of a package line split for the record's ConfigFiles.
ConfigFilesOf(field) == Split(field, SP)

\* Whether a line's fields make a record.
EnoughFields(parts) == Len(parts) >= 2

PackageOf(parts) ==
    [Name |-> parts[1],
     Version |-> parts[2],
     ConfigFiles |-> IF Len(parts) > 2 THEN ConfigFilesOf(parts[3]) ELSE NoStrings,
     RequiredPackages |-> NoStrings]

\* The slice after the loop over lines[1..n].
ParsePackages(lines) ==
    LET after[n \in 0..Len(lines)] ==
            IF n = 0 THEN <<>>
            ELSE IF lines[n] = <<>> THEN after[n - 1]
                 ELSE The({IF EnoughFields(parts)
                           THEN Append(after[n - 1], PackageOf(parts))
                           ELSE after[n - 1] : parts \in {Split(lines[n], TAB)}})
    IN after[Len(lines)]

GetInstalledPackages(output) ==
    The({ParsePackages(lines) : lines \in {Split(output, NL)}})

----------------------------------------------------------------------------
(* The filesystem and ReadConfigFile *)

RootDir == <<SLASH>>

\* path.Clean on the elements of a rooted path: empty and "." elements are
\* dropped, ".." drops the element before it (and itself at the root).
CleanElems(elems) ==
    LET after[n \in 0..Len(elems)] ==
            IF n = 0 THEN <<>>
            ELSE IF elems[n] = <<>> \/ elems[n] = <<".">> THEN after[n - 1]
                 ELSE IF elems[n] = <<".", ".">>
                      THEN SubSeq(after[n - 1], 1, Len(after[n - 1]) - 1)
                      ELSE Append(after[n - 1], elems[n])
    IN after[Len(elems)]

\* The elements, each after a separator.
JoinElems(elems) ==
    LET upto[n \in 0..Len(elems)] ==
            IF n = 0 THEN <<>> ELSE upto[n - 1] \o <<SLASH>> \o elems[n]
    IN upto[Len(elems)]

\* filepath.Join(cr.rootDir, path) with rootDir "/": Clean("/" + "/" + path).
FullPath(path) ==
    The({IF elems = <<>> THEN RootDir ELSE JoinElems(elems) :
           elems \in {CleanElems(Split(RootDir \o <<SLASH>> \o path, SLASH))}})

Missing == [kind |-> "missing", content |-> <<>>, mtime |-> 0]
Denied == [kind |-> "denied", content |-> <<>>, mtime |-> 1]
Dir == [kind |-> "dir", content |-> <<>>, mtime |-> 1]
FileX == [kind |-> "file", content |-> <<"X">>, mtime |-> 1]
FileY == [kind |-> "file", content |-> <<"Y">>, mtime |-> 2]

FileStates == {Missing, Denied, Dir, FileX, FileY}

\* The files the packages' declared paths can name.
FsPaths == {<<SLASH, "a">>, <<SLASH, "b">>}

\* What is at a cleaned absolute path: the root is a directory, a path
\* outside FsPaths does not exist.
Lookup(f, full) ==
    IF full = RootDir THEN Dir
    ELSE IF full \in DOMAIN f THEN f[full] ELSE Missing

\* ioutil.ReadFile succeeds on a readable regular file.
ReadFileOk(f, full) == Lookup(f, full).kind = "file"

\* os.Stat succeeds on whatever exists.
StatOk(f, full) == Lookup(f, full).kind # "missing"

\* fileInfo.ModTime().String()
ModTimeString(t) == <<"mtime", t>>

\* The ConfigFile ReadConfigFile returns.
ConfigFileOf(path, data, info) ==
    [Path |-> path, Content |-> data, Modified |-> ModTimeString(info.mtime)]

\* Mutant of StoreConfig: the entry is keyed by the path that was opened.
StoreConfigByFullPath(cfgs, configPath, config) ==
    MapPut(cfgs, FullPath(configPath), config)

\* Mutant of StoreConfig: an entry already present is kept.
StoreConfigFirstWins(cfgs, configPath, config) ==
    IF configPath \in DOMAIN cfgs THEN cfgs ELSE MapPut(cfgs, configPath, config)

\* configs[configPath] = *config
StoreConfig(cfgs, configPath, config) == MapPut(cfgs, configPath, config)

----------------------------------------------------------------------------
(* The run: main, NewAgent, GatherSystemInfo *)

Call(op, arg, ok, data) == [op |-> op, arg |-> arg, ok |-> ok, data |-> data]

Out(kind, arg) == [kind |-> kind, arg |-> arg]

NilSystemInfo ==
    [OSRelease |-> EmptyMap, Packages |-> <<>>, Configurations |-> EmptyMap,
     nonNil |-> {}]

\* The next (pkg, configPath) position of the nested range loops after
\* (pi, pj); <<0, 0>> when both loops are over.
RECURSIVE NextPos(_, _, _)
NextPos(pkgs, pi, pj) ==
    IF pi > Len(pkgs) THEN <<0, 0>>
    ELSE IF pj + 1 <= Len(pkgs[pi].ConfigFiles) THEN <<pi, pj + 1>>
         ELSE NextPos(pkgs, pi + 1, 0)

\* The loop moves on from (pi, pj) with configs = cfgs; past the last path
\* GatherSystemInfo stores configs and returns nil to main.
Continue(info, pkgs, cfgs, pi, pj) ==
    LET n == NextPos(pkgs, pi, pj) IN
    /\ configs' = cfgs
    /\ i' = n[1]
    /\ j' = n[2]
    /\ IF n = <<0, 0>>
       THEN /\ systemInfo' = [info EXCEPT !.Configurations = cfgs,
                                          !.nonNil = @ \cup {"Configurations"}]
            /\ pc' = "Marshal"
       ELSE /\ systemInfo' = info
            /\ pc' = "ReadFile"

\* Where a warning or a fatal message is printed (fmt.Printf).
PrintWarning(line) ==
    /\ stdout' = Append(stdout, line)
    /\ UNCHANGED stderr

PrintFatal(line) ==
    /\ stdout' = Append(stdout, line)
    /\ UNCHANGED stderr

\* main: NewAgent -> NewOSDetector
ReadDescriptor(texts) ==
    /\ pc = "NewOSDetector"
    /\ \/ \E text \in texts :
            /\ calls' = Append(calls, Call("ReadDescriptor", <<>>, TRUE, text))
            /\ osRelease' = NewOSDetector(text)
            /\ pc' = "NewPackageManager"
            /\ UNCHANGED <<stdout, stderr, exitCode>>
       \/ /\ calls' = Append(calls, Call("ReadDescriptor", <<>>, FALSE, <<>>))
          /\ PrintFatal(Out("fatal", <<"initialize">>))
          /\ exitCode' = 1
          /\ pc' = "exited"
          /\ UNCHANGED osRelease
    /\ UNCHANGED <<pkgType, systemInfo, packages, configs, i, j, content, fs, fsChanges>>

\* NewAgent: NewPackageManager(osDetector.osRelease["ID"]) and the Agent
SelectBackend ==
    /\ pc = "NewPackageManager"
    /\ pkgType' = NewPackageManager(MapGet(osRelease, <<"I", "D">>))
    /\ systemInfo' = NilSystemInfo
    /\ pc' = "GetInstalledPackages"
    /\ UNCHANGED <<osRelease, packages, configs, i, j, content, stdout, stderr,
                   exitCode, calls, fs, fsChanges>>

\* Mutant of QueryPackages: the command's error is dropped and the run goes
\* on with no packages.
QueryPackagesIgnoreError(outputs) ==
    /\ pc = "GetInstalledPackages"
    /\ LET info == [systemInfo EXCEPT !.OSRelease = osRelease,
                                      !.nonNil = @ \cup {"OSRelease"}]
           cmd == <<QueryCommand(pkgType)>>
       IN \/ \E output \in outputs :
               \E pkgs \in {GetInstalledPackages(output)} :
               /\ calls' = Append(calls, Call("Query", cmd, TRUE, output))
               /\ packages' = pkgs
               /\ Continue([info EXCEPT !.Packages = pkgs,
                                        !.nonNil = @ \cup {"Packages"}],
                           pkgs, EmptyMap, 1, 0)
          \/ /\ calls' = Append(calls, Call("Query", cmd, FALSE, <<>>))
             /\ packages' = <<>>
             /\ Continue([info EXCEPT !.nonNil = @ \cup {"Packages"}],
                         <<>>, EmptyMap, 1, 0)
    /\ UNCHANGED <<osRelease, pkgType, content, stdout, stderr, exitCode, fs, fsChanges>>

\* Mutant of QueryPackages: a failed command is run once more.
QueryPackagesRetry(outputs) ==
    /\ pc = "GetInstalledPackages"
    /\ LET info == [systemInfo EXCEPT !.OSRelease = osRelease,
                                      !.nonNil = @ \cup {"OSRelease"}]
           cmd == <<QueryCommand(pkgType)>>
       IN \/ \E output \in outputs :
               \E pkgs \in {GetInstalledPackages(output)} :
               /\ calls' = Append(calls, Call("Query", cmd, TRUE, output))
               /\ packages' = pkgs
               /\ Continue([info EXCEPT !.Packages = pkgs,
                                        !.nonNil = @ \cup {"Packages"}],
                           pkgs, EmptyMap, 1, 0)
               /\ UNCHANGED <<stdout, stderr, exitCode>>
          \/ /\ calls' = Append(calls, Call("Query", cmd, FALSE, <<>>))
             /\ systemInfo' = info
             /\ IF \E k \in DOMAIN calls : calls[k].op = "Query"
                THEN /\ PrintFatal(Out("fatal", <<"gather">>))
                     /\ exitCode' = 1
                     /\ pc' = "exited"
                ELSE UNCHANGED <<pc, stdout, stderr, exitCode>>
             /\ UNCHANGED <<packages, configs, i, j>>
    /\ UNCHANGED <<osRelease, pkgType, content, fs, fsChanges>>

\* GatherSystemInfo up to the first config path
QueryPackages(outputs) ==
    /\ pc = "GetInstalledPackages"
    /\ LET info == [systemInfo EXCEPT !.OSRelease = osRelease,
                                      !.nonNil = @ \cup {"OSRelease"}]
           cmd == <<QueryCommand(pkgType)>>
       IN \/ \E output \in outputs :
               \E pkgs \in {GetInstalledPackages(output)} :
               /\ calls' = Append(calls, Call("Query", cmd, TRUE, output))
               /\ packages' = pkgs
               /\ Continue([info EXCEPT !.Packages = pkgs,
                                        !.nonNil = @ \cup {"Packages"}],
                           pkgs, EmptyMap, 1, 0)
               /\ UNCHANGED <<stdout, stderr, exitCode>>
          \/ /\ calls' = Append(calls, Call("Query", cmd, FALSE, <<>>))
             /\ systemInfo' = info
             /\ PrintFatal(Out("fatal", <<"gather">>))
             /\ exitCode' = 1
             /\ pc' = "exited"
             /\ UNCHANGED <<packages, configs, i, j>>
    /\ UNCHANGED <<osRelease, pkgType, content, fs, fsChanges>>

\* The path of the loop's current iteration
ConfigPath == packages[i].ConfigFiles[j]

\* Mutant of ReadFileStep: the read error is returned to main.
ReadFileStepFatal ==
    /\ pc = "ReadFile"
    /\ \E full \in {FullPath(ConfigPath)} :
       IF ReadFileOk(fs, full)
       THEN /\ calls' = Append(calls, Call("ReadFile", ConfigPath, TRUE,
                                            Lookup(fs, full).content))
            /\ content' = Lookup(fs, full).content
            /\ pc' = "Stat"
            /\ UNCHANGED <<systemInfo, configs, i, j, stdout, stderr, exitCode>>
       ELSE /\ calls' = Append(calls, Call("ReadFile", ConfigPath, FALSE, <<>>))
            /\ PrintFatal(Out("fatal", <<"gather">>))
            /\ exitCode' = 1
            /\ pc' = "exited"
            /\ UNCHANGED <<systemInfo, configs, i, j, content>>
    /\ UNCHANGED <<osRelease, pkgType, packages, fs, fsChanges>>

\* Mutant of ReadFileStep: a read error ends the loops (break for continue).
ReadFileStepBreak ==
    /\ pc = "ReadFile"
    /\ \E full \in {FullPath(ConfigPath)} :
       IF ReadFileOk(fs, full)
       THEN /\ calls' = Append(calls, Call("ReadFile", ConfigPath, TRUE,
                                            Lookup(fs, full).content))
            /\ content' = Lookup(fs, full).content
            /\ pc' = "Stat"
            /\ UNCHANGED <<systemInfo, configs, i, j, stdout, stderr>>
       ELSE /\ calls' = Append(calls, Call("ReadFile", ConfigPath, FALSE, <<>>))
            /\ PrintWarning(Out("warning", ConfigPath))
            /\ Continue(systemInfo, packages, configs, Len(packages) + 1, 0)
            /\ UNCHANGED content
    /\ UNCHANGED <<osRelease, pkgType, packages, exitCode, fs, fsChanges>>

\* ReadConfigFile: ioutil.ReadFile(fullPath)
ReadFileStep ==
    /\ pc = "ReadFile"
    /\ \E full \in {FullPath(ConfigPath)} :
       IF ReadFileOk(fs, full)
       THEN /\ calls' = Append(calls, Call("ReadFile", ConfigPath, TRUE,
                                            Lookup(fs, full).content))
            /\ content' = Lookup(fs, full).content
            /\ pc' = "Stat"
            /\ UNCHANGED <<systemInfo, configs, i, j, stdout, stderr>>
       ELSE /\ calls' = Append(calls, Call("ReadFile", ConfigPath, FALSE, <<>>))
            /\ PrintWarning(Out("warning", ConfigPath))
            /\ Continue(systemInfo, packages, configs, i, j)
            /\ UNCHANGED content
    /\ UNCHANGED <<osRelease, pkgType, packages, exitCode, fs, fsChanges>>

\* ReadConfigFile: os.Stat(fullPath), then configs[configPath] = *config
StatStep ==
    /\ pc = "Stat"
    /\ \E full \in {FullPath(ConfigPath)} :
       IF StatOk(fs, full)
       THEN /\ calls' = Append(calls, Call("Stat", ConfigPath, TRUE,
                                            <<Lookup(fs, full).mtime>>))
            /\ Continue(systemInfo, packages,
                        StoreConfig(configs, ConfigPath,
                                    ConfigFileOf(ConfigPath, content, Lookup(fs, full))),
                        i, j)
            /\ UNCHANGED <<stdout, stderr>>
       ELSE /\ calls' = Append(calls, Call("Stat", ConfigPath, FALSE, <<>>))
            /\ PrintWarning(Out("warning", ConfigPath))
            /\ Continue(systemInfo, packages, configs, i, j)
    /\ content' = <<>>
    /\ UNCHANGED <<osRelease, pkgType, packages, exitCode, fs, fsChanges>>

\* main: json.MarshalIndent, fmt.Println, return.  MarshalIndent has no error
\* to give on maps, slices and structs of strings, so its exit is not a step.
MarshalAndPrint ==
    /\ pc = "Marshal"
    /\ stdout' = Append(stdout, Out("json", systemInfo))
    /\ exitCode' = 0
    /\ pc' = "exited"
    /\ UNCHANGED <<osRelease, pkgType, systemInfo, packages, configs, i, j, content,
                   stderr, calls, fs, fsChanges>>

\* Another process changes a file while the config files are being read (a
\* change before the first read is one of Init's filesystems).
FsChange ==
    /\ pc \in {"ReadFile", "Stat"}
    /\ fsChanges < MaxFsChanges
    /\ \E p \in FsPaths, st \in FileStates :
          /\ st # fs[p]
          /\ fs' = [fs EXCEPT ![p] = st]
    /\ fsChanges' = fsChanges + 1
    /\ UNCHANGED <<pc, osRelease, pkgType, systemInfo, packages, configs, i, j,
                   content, stdout, stderr, exitCode, calls>>

----------------------------------------------------------------------------
(* The inputs of a run *)

\* ID="ubuntu"
DescUbuntu == <<"I", "D", EQ, QUOTE, "u", "b", "u", "n", "t", "u", QUOTE, NL>>
\* NAME=x, then ID=Rhel
DescRhel == <<"N", "A", "M", "E", EQ, "x", NL, "I", "D", EQ, "R", "h", "e", "l", NL>>
\* no ID line
DescNoID == <<"N", "A", "M", "E", EQ, "x", NL>>

Descriptors == {DescUbuntu, DescRhel, DescNoID}

\* two packages, one path each
OutTwo == <<"a", TAB, "1", TAB, SLASH, "a", NL, "b", TAB, "2", TAB, SLASH, "b", NL>>
\* two packages declaring the same path
OutShared == <<"a", TAB, "1", TAB, SLASH, "a", SP, SLASH, "b", NL,
               "b", TAB, "2", TAB, SLASH, "a", NL>>
\* one package declaring a path twice, and the same file under another name
OutTwice == <<"a", TAB, "1", TAB, SLASH, "a", SP, SLASH, SLASH, "b", SP, SLASH, "a", NL>>
\* no declared path, a one-field line, an empty line
OutNoPaths == <<"a", TAB, "1", NL, "b", NL, NL>>
\* an empty third field
OutEmptyField == <<"a", TAB, "1", TAB, NL>>

Outputs == {OutTwo, OutShared, OutTwice, OutNoPaths, OutEmptyField}

----------------------------------------------------------------------------
(* Specifications *)

Init ==
    /\ pc = "NewOSDetector"
    /\ osRelease = EmptyMap
    /\ pkgType = "none"
    /\ systemInfo = NilSystemInfo
    /\ packages = <<>>
    /\ configs = EmptyMap
    /\ i = 0
    /\ j = 0
    /\ content = <<>>
    /\ stdout = <<>>
    /\ stderr = <<>>
    /\ exitCode = 0
    /\ calls = <<>>
    /\ fs \in [FsPaths -> FileStates]
    /\ fsChanges = 0

\* The steps of the program itself.
Run ==
    \/ ReadDescriptor(Descriptors)
    \/ SelectBackend
    \/ QueryPackages(Outputs)
    \/ ReadFileStep
    \/ StatStep
    \/ MarshalAndPrint

Next == Run \/ FsChange

\* A run on a filesystem other processes may change.
Spec == Init /\ [][Next]_vars

\* A run on a filesystem nothing else changes.
StableSpec == Init /\ [][Run]_vars

\* The program is the only process scheduled: it always takes its next step.
FairSpec == Spec /\ WF_vars(Run)

----------------------------------------------------------------------------
(* What the history of a run says *)

IsQuery(c) == c.op = "Query"
IsReadFile(c) == c.op = "ReadFile"

Queries == SelectSeq(calls, IsQuery)

QuerySucceeded == \E k \in DOMAIN calls : calls[k].op = "Query" /\ calls[k].ok
QueryFailed == \E k \in DOMAIN calls : calls[k].op = "Query" /\ ~calls[k].ok

\* The declared paths in the order ReadConfigFile was called on them.
AttemptedPaths == [k \in DOMAIN SelectSeq(calls, IsReadFile) |->
                      SelectSeq(calls, IsReadFile)[k].arg]

\* The calls that ended a ReadConfigFile with an error, and with a ConfigFile.
FailedCalls == {k \in DOMAIN calls : calls[k].op \in {"ReadFile", "Stat"} /\ ~calls[k].ok}
SucceededCalls == {k \in DOMAIN calls : calls[k].op = "Stat" /\ calls[k].ok}

\* The declared paths of the packages, package after package.
RECURSIVE DeclaredSeq(_)
DeclaredSeq(pkgs) ==
    IF pkgs = <<>> THEN <<>>
    ELSE Head(pkgs).ConfigFiles \o DeclaredSeq(Tail(pkgs))

DeclaredSet(pkgs) == {pkgs[a].ConfigFiles[b] :
                        <<a, b>> \in {<<a, b>> \in (DOMAIN pkgs) \X (0..8) :
                                        b \in DOMAIN pkgs[a].ConfigFiles}}

Lines(kind) == {k \in DOMAIN stdout : stdout[k].kind = kind}
ErrLines(kind) == {k \in DOMAIN stderr : stderr[k].kind = kind}

IsPrefix(s, t) == Len(s) <= Len(t) /\ SubSeq(t, 1, Len(s)) = s

Exited(code) == pc = "exited" /\ exitCode = code

----------------------------------------------------------------------------
(* Claims about the run *)

\* C1: in every state of GatherSystemInfo the keys of the configurations
\* mapping (the local configs and, once stored, SystemInfo.Configurations)
\* are declared config paths of the enumerated packages, and every declared
\* path whose ReadFile and Stat both succeeded is a key, holding a ConfigFile
\* with the content that was read.
C1_ConfigKeysDeclared ==
    /\ DOMAIN configs \subseteq DeclaredSet(packages)
    /\ DOMAIN systemInfo.Configurations \subseteq DeclaredSet(systemInfo.Packages)
    /\ \A k \in SucceededCalls :
          /\ calls[k].arg \in DOMAIN configs
          /\ \E r \in DOMAIN calls :
                /\ calls[r].op = "ReadFile" /\ calls[r].ok
                /\ calls[r].arg = calls[k].arg
                /\ configs[calls[k].arg].Content = calls[r].data
    /\ "Configurations" \in systemInfo.nonNil => systemInfo.Configurations = configs

\* C1 witness: a finished run whose mapping holds one declared path and
\* lacks another.
C1_Witness ==
    /\ Exited(0)
    /\ DOMAIN systemInfo.Configurations # {}
    /\ DOMAIN systemInfo.Configurations # DeclaredSet(systemInfo.Packages)
    /\ SucceededCalls # {}

C3_QueryFailureFatal ==
    QueryFailed =>
        /\ packages = <<>>
        /\ \A k \in DOMAIN calls : calls[k].op \notin {"ReadFile", "Stat"}
        /\ systemInfo.nonNil \cap {"Packages", "Configurations"} = {}
        /\ systemInfo.Packages = <<>>
        /\ systemInfo.Configurations = EmptyMap
        /\ Exited(1)
        /\ Lines("json") = {}

\* C3 witness: a run whose query failed.
C3_Witness == QueryFailed /\ pc = "exited"

\* C4: in a run that ends with exit code 0, standard output holds exactly one
\* JSON document and nothing else, and every warning for a skipped config
\* file is on the other stream.
C4_WarningsOffStdout ==
    Exited(0) =>
        /\ Len(stdout) = 1
        /\ stdout[1].kind = "json"
        /\ Cardinality(ErrLines("warning")) = Cardinality(FailedCalls)

\* The run of C4's failing input has ended: warnings were printed, exit code 0.
C4_SkippedFileRun == Exited(0) /\ FailedCalls # {}

\* C5: the steps of a run come in the order descriptor read, backend
\* selection, package query, config reads, JSON output: the descriptor read
\* is the first call and its failure ends the run with 1 before any query,
\* the backend is selected only after it, the query is the second call, is
\* made at most once and with the selected backend's command, config files
\* are read only after a successful query, the JSON document is the last
\* thing printed, and the backend never changes once selected.
C5_StrictOrder ==
    /\ [](/\ Len(Queries) <= 1
          /\ \A k \in DOMAIN calls :
                /\ calls[k].op = "ReadDescriptor" => k = 1
                /\ calls[k].op = "Query" =>
                      /\ k = 2
                      /\ calls[1].op = "ReadDescriptor" /\ calls[1].ok
                      /\ pkgType # "none"
                      /\ calls[k].arg = <<QueryCommand(pkgType)>>
                /\ calls[k].op \in {"ReadFile", "Stat"} =>
                      k > 2 /\ calls[2].op = "Query" /\ calls[2].ok
          /\ (calls # <<>> /\ ~calls[1].ok) =>
                Exited(1) /\ Len(calls) = 1 /\ pkgType = "none"
          /\ pkgType # "none" => (calls # <<>> /\ calls[1].ok)
          /\ Lines("json") # {} =>
                /\ Exited(0)
                /\ QuerySucceeded
                /\ Lines("json") = {Len(stdout)}
                /\ AttemptedPaths = DeclaredSeq(packages))
    /\ [][pkgType # "none" => pkgType' = pkgType]_vars

\* C5 witness: a finished run that read config files.
C5_Witness == Exited(0) /\ Len(AttemptedPaths) >= 2 /\ pkgType = "rpm"

\* C6: the entry of a declared path is the ConfigFile of the last successful
\* ReadConfigFile of that path, in the order packages and their paths were
\* enumerated; its key is the declared path and its Path field is that key.
C6_LastWriteWins ==
    /\ \A p \in DOMAIN configs :
          LET ks == {k \in SucceededCalls : calls[k].arg = p} IN
          /\ ks # {}
          /\ configs[p] = [Path |-> p,
                           Content |-> calls[Max(ks) - 1].data,
                           Modified |-> ModTimeString(calls[Max(ks)].data[1])]
    /\ "Configurations" \in systemInfo.nonNil => systemInfo.Configurations = configs

\* C6 witness: a finished run in which one declared path was read twice
\* with different contents.
C6_Witness ==
    /\ Exited(0)
    /\ \E k1, k2 \in SucceededCalls :
          /\ k1 < k2
          /\ calls[k1].arg = calls[k2].arg
          /\ calls[k1 - 1].data # calls[k2 - 1].data

\* C10: after a successful query ReadConfigFile is called once per declared
\* path occurrence, in the order of the packages and of each package's paths,
\* and whatever the outcomes the loops end with every occurrence attempted
\* and SystemInfo.Configurations set.
C10_OneAttemptPerOccurrence ==
    /\ [](QuerySucceeded =>
            /\ IsPrefix(AttemptedPaths, DeclaredSeq(packages))
            /\ pc \in {"Marshal", "exited"} =>
                  /\ AttemptedPaths = DeclaredSeq(packages)
                  /\ "Configurations" \in systemInfo.nonNil)
    /\ (QuerySucceeded ~>
            /\ pc \in {"Marshal", "exited"}
            /\ AttemptedPaths = DeclaredSeq(packages)
            /\ "Configurations" \in systemInfo.nonNil
            /\ systemInfo.Configurations = configs)

\* C10 witness: a finished run in which a path declared twice was attempted
\* twice and some attempt failed.
C10_Witness ==
    /\ Exited(0)
    /\ FailedCalls # {}
    /\ \E a, b \in DOMAIN AttemptedPaths : a < b /\ AttemptedPaths[a] = AttemptedPaths[b]

----------------------------------------------------------------------------
(* The three parsers on every short input *)

\* Every string over an alphabet up to a length.
Strings(alphabet, maxLen) == UNION {[1..n -> alphabet] : n \in 0..maxLen}

IDKey == <<"I", "D">>

\* A token in every mix of upper and lower case.
UpperRune(c) ==
    IF \E k \in 1..Len(Lower) : Lower[k] = c
    THEN Upper[CHOOSE k \in 1..Len(Lower) : Lower[k] = c]
    ELSE c

CaseMixes(tok) == {[k \in 1..Len(tok) |-> IF k \in up THEN UpperRune(tok[k]) ELSE tok[k]] :
                     up \in SUBSET (1..Len(tok))}

FamilyTokens == {<<"r","h","e","l">>, <<"c","e","n","t","o","s">>, <<"f","e","d","o","r","a">>}

Affixes == {<<>>, <<"x">>, <<"-", "8">>}

TokenIDs == {pre \o mix \o post :
               pre \in Affixes, post \in Affixes,
               mix \in UNION {CaseMixes(tok) : tok \in FamilyTokens}}

ShortIDs == Strings({"r", "h", "e", "l", "H", "-"}, MaxIDLen)

\* Descriptors with one ID line, bare or quoted, with no ID line, and empty.
IDDescriptors ==
    {IDKey \o <<EQ>> \o id \o <<NL>> : id \in ShortIDs \cup TokenIDs}
      \cup {IDKey \o <<EQ, QUOTE>> \o id \o <<QUOTE, NL>> : id \in TokenIDs}
      \cup {DescNoID, <<>>}

AllOutputs == Strings({"a", TAB, NL, SP}, MaxOutputLen)

AllDescriptors == Strings({"a", EQ, QUOTE, NL}, MaxDescLen)

\* One filesystem is enough where no config file is read.
InitNoFiles == Init /\ fs = [p \in FsPaths |-> Missing]

DetectNext == ReadDescriptor(AllDescriptors)

\* NewOSDetector on every short descriptor.
DetectSpec == InitNoFiles /\ [][DetectNext]_vars

BackendNext == ReadDescriptor(IDDescriptors) \/ SelectBackend

\* NewAgent on every short ID and on the family tokens in every case.
BackendSpec == InitNoFiles /\ [][BackendNext]_vars

ParseNext == ReadDescriptor({DescUbuntu, DescRhel}) \/ SelectBackend \/ QueryPackages(AllOutputs)

\* The run up to the return of GetInstalledPackages, on every short output.
ParseSpec == InitNoFiles /\ [][ParseNext]_vars

----------------------------------------------------------------------------
(* The parsers' results said character by character *)

\* The pieces of s between separators, read off from its last character back.
RECURSIVE Pieces(_, _)
Pieces(s, sep) ==
    IF s = <<>> THEN << <<>> >>
    ELSE LET rest == Pieces(Tail(s), sep) IN
         IF Head(s) = sep THEN << <<>> >> \o rest
         ELSE << <<Head(s)>> \o Head(rest) >> \o Tail(rest)

\* s without its leading and without its trailing quote characters.
RECURSIVE Unquoted(_)
Unquoted(s) ==
    IF s # <<>> /\ Head(s) = QUOTE THEN Unquoted(Tail(s))
    ELSE IF s # <<>> /\ s[Len(s)] = QUOTE THEN Unquoted(SubSeq(s, 1, Len(s) - 1))
         ELSE s

HasEq(line) == \E k \in DOMAIN line : line[k] = EQ

\* The line before and after its first "=".
KeyPart(line) == SubSeq(line, 1, Min({k \in DOMAIN line : line[k] = EQ}) - 1)
ValuePart(line) == SubSeq(line, Min({k \in DOMAIN line : line[k] = EQ}) + 1, Len(line))

\* Whether the ID holds a family token whatever the case of its letters.
HasFamilyToken(id) ==
    \E tok \in FamilyTokens : \E k \in 0..(Len(id) - Len(tok)) :
        \A m \in 1..Len(tok) : id[k + m] \in {tok[m], UpperRune(tok[m])}

\* The text the descriptor read returned.
DescriptorText == calls[1].data
DescriptorRead == calls # <<>> /\ calls[1].op = "ReadDescriptor" /\ calls[1].ok

\* C7: NewPackageManager answers for every ID, the empty and the missing one
\* included, with "rpm" when the ID holds rhel, centos or fedora in any mix
\* of upper and lower case, and with "apt" otherwise.
C7_BackendSelection ==
    /\ pc = "GetInstalledPackages" =>
          /\ pkgType \in {"rpm", "apt"}
          /\ pkgType = "rpm" <=> HasFamilyToken(MapGet(osRelease, IDKey))
          /\ IDKey \notin DOMAIN osRelease => pkgType = "apt"
    /\ (pc = "NewPackageManager" /\ IDKey \in DOMAIN osRelease) =>
          \E k \in DOMAIN Pieces(DescriptorText, NL) :
              /\ HasEq(Pieces(DescriptorText, NL)[k])
              /\ Unquoted(ValuePart(Pieces(DescriptorText, NL)[k])) = osRelease[IDKey]

\* C7 witness: an ID in mixed case selected RPM.
C7_Witness ==
    /\ pc = "GetInstalledPackages"
    /\ pkgType = "rpm"
    /\ MapGet(osRelease, IDKey) # ToLower(MapGet(osRelease, IDKey))
    /\ \A tok \in FamilyTokens : ~Contains(MapGet(osRelease, IDKey), tok)

\* The record the claim gives a line's fields.
RecordOf(fields) ==
    [Name |-> fields[1],
     Version |-> fields[2],
     ConfigFiles |-> IF Len(fields) >= 3 THEN Pieces(fields[3], SP) ELSE <<>>]

\* The records of the lines that are not empty and have two fields or more.
RECURSIVE RecordsOf(_)
RecordsOf(lines) ==
    IF lines = <<>> THEN <<>>
    ELSE LET fields == Pieces(Head(lines), TAB) IN
         IF Head(lines) # <<>> /\ Len(fields) >= 2
         THEN <<RecordOf(fields)>> \o RecordsOf(Tail(lines))
         ELSE RecordsOf(Tail(lines))

\* C8: the packages GetInstalledPackages returns are, in line order, one
\* record per non-empty line with two or more tab-separated fields: name the
\* first field, version the second, declared paths the third field split at
\* each single space, and none when there is no third field.
C8_PackageLines ==
    QuerySucceeded =>
        LET want == RecordsOf(Pieces(Queries[1].data, NL)) IN
        /\ Len(packages) = Len(want)
        /\ \A k \in DOMAIN packages :
              /\ packages[k].Name = want[k].Name
              /\ packages[k].Version = want[k].Version
              /\ packages[k].ConfigFiles = want[k].ConfigFiles

\* C8 witness: two records, the first with two declared paths, the second
\* with none.
C8_Witness ==
    /\ QuerySucceeded
    /\ Len(packages) = 2
    /\ Len(packages[1].ConfigFiles) = 2
    /\ packages[2].ConfigFiles = <<>>

\* The lines of the descriptor that hold an "=".
KeyLines == {k \in DOMAIN Pieces(DescriptorText, NL) : HasEq(Pieces(DescriptorText, NL)[k])}

\* C9: NewOSDetector maps exactly the keys of the lines holding an "=", each
\* line split at its first "=" and key and value stripped of their
\* surrounding quote characters; a key on one line only maps to that line's
\* value, further "=" kept; an unreadable descriptor gives an error and no map.
C9_DescriptorParse ==
    /\ (DescriptorRead /\ pc = "NewPackageManager") =>
          LET lines == Pieces(DescriptorText, NL) IN
          /\ DOMAIN osRelease = {Unquoted(KeyPart(lines[k])) : k \in KeyLines}
          /\ \A k \in KeyLines :
                (\A q \in KeyLines :
                    Unquoted(KeyPart(lines[q])) = Unquoted(KeyPart(lines[k])) => q = k)
                => osRelease[Unquoted(KeyPart(lines[k]))] = Unquoted(ValuePart(lines[k]))
    /\ (calls # <<>> /\ ~calls[1].ok) => (osRelease = EmptyMap /\ Exited(1))

\* C9 witness: a quoted value holding an "=" was read for a key on one line.
C9_Witness ==
    /\ DescriptorRead
    /\ pc = "NewPackageManager"
    /\ \E k \in DOMAIN osRelease : \E m \in DOMAIN osRelease[k] : osRelease[k][m] = EQ
    /\ \E m \in DOMAIN DescriptorText : DescriptorText[m] = QUOTE
    /\ Cardinality(KeyLines) = 1

====
